---- MODULE Spec2Model ----
(***************************************************************************)
(* Model of the static-site content pipeline: content resolution           *)
(* (src/src/content.rs, ContentFile) and template rendering                *)
(* (src/src/templates.rs, TemplateEngine).                                 *)
(*                                                                         *)
(* Text is modelled over an alphabet of string pieces: a file or directory *)
(* name is a sequence of pieces (<<"about", ".", "md">> is about.md) and a *)
(* path is a sequence of names.  No piece is a concatenation of other      *)
(* pieces, so a prefix test on the joined text is a prefix test on the     *)
(* pieces.  Strings the code builds with format! are built with \o.        *)
(***************************************************************************)
EXTENDS Integers, Sequences, FiniteSets, Bags, TLC

VARIABLES
    path,           \* from_path argument: the content file's path
    source_root,    \* from_path argument: the source root
    file,           \* what the file system holds at path
    pc,             \* "start" | "resolved" | "failed": position of the resolver's caller
    result,         \* Result<ContentFile> returned by from_path
    derived,        \* the last on-demand derivation called on the document
    data_dir,       \* the file system's <source_dir>/_data directory
    template_files, \* what Tera::new("templates/**/*.html") finds on disk
    engine_pc,      \* "new" | "ready" | "failed": TemplateEngine::new not called / Ok / Err
    engine,         \* {} or {TemplateEngine}: the value TemplateEngine::new returned
    calls,          \* bag of the render calls in flight, one per busy caller thread
    returned        \* the render call that returned last, with its Result<String>

vars == <<path, source_root, file, pc, result, derived,
          data_dir, template_files, engine_pc, engine, calls, returned>>
contentVars == <<path, source_root, file, pc, result, derived>>
engineVars == <<data_dir, template_files, engine_pc, engine, calls, returned>>

(***************************************************************************)
(* Bounds of the model.                                                    *)
(***************************************************************************)
MaxDepth == 2       \* directories above a content file
MaxKeys == 2        \* top-level keys of a front-matter mapping
MaxDataFiles == 2   \* directory entries of _data
NumThreads == 2     \* caller threads sharing one engine

(***************************************************************************)
(* Options and text.                                                       *)
(***************************************************************************)
None == [some |-> FALSE, v |-> ""]
Some(s) == [some |-> TRUE, v |-> s]

\* Pieces that are not valid Unicode (OsStr::to_str returns None on them).
NonUtf8 == {"<FF>"}

RECURSIVE Join(_)
\* The text of a sequence of pieces.
Join(ps) == IF ps = <<>> THEN "" ELSE Head(ps) \o Join(Tail(ps))

\* OsStr::to_str: Some(text) when the name is valid Unicode, None otherwise.
to_str(name) ==
    IF \E i \in 1..Len(name) : name[i] \in NonUtf8 THEN None ELSE Some(Join(name))

\* Index of the last "." piece of a name, 0 when there is none.
LastDot(name) ==
    LET dots == {i \in 1..Len(name) : name[i] = "."}
    IN  IF dots = {} THEN 0 ELSE CHOOSE i \in dots : \A j \in dots : j <= i

DotDot == <<".", ".">>

\* Path::file_stem as Option<name>: None when the path ends in "..", the whole
\* file name when it has no "." or only a leading one, else the part before
\* the last ".".
file_stem(p) ==
    LET name == p[Len(p)]
    IN  IF p = <<>> \/ name = DotDot THEN [some |-> FALSE, v |-> <<>>]
        ELSE IF LastDot(name) <= 1 THEN [some |-> TRUE, v |-> name]
        ELSE [some |-> TRUE, v |-> SubSeq(name, 1, LastDot(name) - 1)]

\* self.path.file_stem().and_then(|s| s.to_str()).unwrap_or("index")
Stem(p) ==
    LET fs == file_stem(p)
        s == IF fs.some THEN to_str(fs.v) ELSE None
    IN  IF s.some THEN s.v ELSE "index"

(***************************************************************************)
(* gray_matter::Pod and serde_yaml::Value.  Both are records of one shape  *)
(* [tag, str, num, bool, items, fields]: items is the element sequence of  *)
(* an array, fields the set of [k, v] pairs of a hash; num of a Float is   *)
(* the value in tenths.                                                    *)
(***************************************************************************)
Node(t, s, n, b, i, f) ==
    [tag |-> t, str |-> s, num |-> n, bool |-> b, items |-> i, fields |-> f]

PString(s) == Node("String", s, 0, FALSE, <<>>, {})
PInteger(n) == Node("Integer", "", n, FALSE, <<>>, {})
PFloat(tenths) == Node("Float", "", tenths, FALSE, <<>>, {})
PBoolean(b) == Node("Boolean", "", 0, b, <<>>, {})
PArray(seq) == Node("Array", "", 0, FALSE, seq, {})
PHash(pairs) == Node("Hash", "", 0, FALSE, <<>>, pairs)
PNull == Node("Null", "", 0, FALSE, <<>>, {})

VString(s) == Node("String", s, 0, FALSE, <<>>, {})
VNumber(n) == Node("Number", "", n, FALSE, <<>>, {})
VBool(b) == Node("Bool", "", 0, b, <<>>, {})
VSequence(seq) == Node("Sequence", "", 0, FALSE, seq, {})
VMapping(pairs) == Node("Mapping", "", 0, FALSE, <<>>, pairs)
VNull == Node("Null", "", 0, FALSE, <<>>, {})

\* `f as i64` on a float given in tenths: truncation toward zero.
FloatAsI64(tenths) == IF tenths >= 0 THEN tenths \div 10 ELSE -((-tenths) \div 10)

RECURSIVE pod_to_yaml_value(_)
pod_to_yaml_value(pod) ==
    CASE pod.tag = "String" -> VString(pod.str)
      [] pod.tag = "Integer" -> VNumber(pod.num)
      [] pod.tag = "Float" -> VNumber(FloatAsI64(pod.num))
      [] pod.tag = "Boolean" -> VBool(pod.bool)
      [] pod.tag = "Array" ->
            VSequence([i \in 1..Len(pod.items) |-> pod_to_yaml_value(pod.items[i])])
      [] pod.tag = "Hash" ->
            VMapping({[k |-> f.k, v |-> pod_to_yaml_value(f.v)] : f \in pod.fields})
      [] OTHER -> VNull

\* The keys of a set of [k, v] pairs, and the value under a key.
Keys(pairs) == {f.k : f \in pairs}
At(pairs, key) == (CHOOSE f \in pairs : f.k = key).v

EmptyFrontMatter == [title |-> None, layout |-> None, lang |-> None, extra |-> {}]

Recognized == {"title", "layout", "lang"}

\* A recognized key is captured only when its value is a Pod::String.
Capture(map, key) ==
    IF key \in Keys(map) /\ At(map, key).tag = "String"
    THEN Some(At(map, key).str) ELSE None

\* The loop over a Pod::Hash in from_path.  The hash has one value per key, so
\* the outcome does not depend on the iteration order.
FrontMatterOfHashLeaky(map) ==
    [title |-> Capture(map, "title"),
     layout |-> Capture(map, "layout"),
     lang |-> Capture(map, "lang"),
     extra |-> {[k |-> f.k, v |-> pod_to_yaml_value(f.v)] :
                    f \in {g \in map : g.k \notin Recognized \/ g.v.tag # "String"}}]

FrontMatterOfHash(map) ==
    [title |-> Capture(map, "title"),
     layout |-> Capture(map, "layout"),
     lang |-> Capture(map, "lang"),
     extra |-> {[k |-> f.k, v |-> pod_to_yaml_value(f.v)] :
                    f \in {g \in map : g.k \notin Recognized}}]

\* data is result.data, an Option<Pod> given as a set of at most one Pod.
FrontMatterOf(data) ==
    IF data = {} THEN EmptyFrontMatter
    ELSE LET pod == CHOOSE d \in data : TRUE
         IN  IF pod.tag = "Hash" THEN FrontMatterOfHash(pod.fields)
             ELSE EmptyFrontMatter

(***************************************************************************)
(* The file system a content file is read from.                            *)
(***************************************************************************)
Site == <<"site">>
PagesDir == <<"_pages">>
Dirs == {Site, PagesDir}

FileNames ==
    { <<"index", ".", "md">>,
      <<"about", ".", "md">>,
      <<"about", ".", "en", ".", "md">>,
      <<"_pages", "_old", ".", "md">>,
      <<"README">>,
      <<"<FF>", ".", "md">>,
      DotDot }

\* Sequences over S of length at most n.
SeqUpTo(S, n) == UNION {[1..k -> S] : k \in 0..n}

Paths == {d \o <<f>> : d \in SeqUpTo(Dirs, MaxDepth), f \in FileNames}
Roots == {<<>>} \cup {<<d>> : d \in Dirs}

FrontKeys == {"title", "layout", "lang", "tags"}

PodVals ==
    { PString("post"),
      PInteger(7),
      PFloat(25),
      PBoolean(TRUE),
      PArray(<<PString("a"), PFloat(-15)>>),
      PHash({[k |-> "title", v |-> PString("Nested")]}),
      PNull }

\* Front-matter mappings: one value per key, at most MaxKeys keys.
FrontMaps ==
    UNION { { {[k |-> key, v |-> f[key]] : key \in S} : f \in [S -> PodVals] } :
            S \in {T \in SUBSET FrontKeys : Cardinality(T) <= MaxKeys} }

\* The front-matter region of a file: absent, not parseable, or a parsed Pod.
FrontBlocks ==
    {[kind |-> "none", pod |-> PNull], [kind |-> "malformed", pod |-> PNull]}
    \cup {[kind |-> "parsed", pod |-> PHash(m)] : m \in FrontMaps}
    \cup {[kind |-> "parsed", pod |-> PArray(<<PString("a")>>)]}

Body == "# Hi"

Unreadable == [readable |-> FALSE, front |-> [kind |-> "none", pod |-> PNull], body |-> ""]
Files == {Unreadable} \cup {[readable |-> TRUE, front |-> b, body |-> Body] : b \in FrontBlocks}

(***************************************************************************)
(* ContentFile::from_path and what it calls.                               *)
(***************************************************************************)
\* Matter::<YAML>::parse returns a ParsedEntity, not a Result: data is an
\* Option<Pod> (a set of at most one Pod).  On a block the YAML engine cannot
\* parse the library may leave data unset or hand back a null Pod.
matter_data(front) ==
    CASE front.kind = "none" -> {{}}
      [] front.kind = "parsed" -> {{front.pod}}
      [] OTHER -> {{}, {PNull}}

\* html::push_html over Parser::new_ext(content, options), on the bodies used.
push_html(content) ==
    CASE content = "# Hi" -> "<h1>Hi</h1>\n"
      [] content = "~~x~~" -> "<p><del>x</del></p>\n"
      [] OTHER -> ""

\* Path::strip_prefix, by components.
strip_prefix(p, base) ==
    IF Len(base) <= Len(p) /\ SubSeq(p, 1, Len(base)) = base
    THEN [ok |-> TRUE, v |-> SubSeq(p, Len(base) + 1, Len(p))]
    ELSE [ok |-> FALSE, v |-> <<>>]

\* Path::to_string_lossy as pieces: names joined by "/", pieces that are not
\* valid Unicode replaced by U+FFFD.
Lossy(piece) == IF piece \in NonUtf8 THEN "<U+FFFD>" ELSE piece

RECURSIVE to_string_lossy(_)
to_string_lossy(p) ==
    IF p = <<>> THEN <<>>
    ELSE LET name == [i \in 1..Len(Head(p)) |-> Lossy(Head(p)[i])]
         IN  IF Len(p) = 1 THEN name ELSE name \o <<"/">> \o to_string_lossy(Tail(p))

\* str::starts_with on a text given as pieces, for a pattern that is one piece.
starts_with(pieces, pattern) == Len(pieces) >= 1 /\ pieces[1] = pattern

extract_collection_and_language_dir(rel) ==
    IF Len(rel) >= 2 /\ rel[1] = <<"_pages">>
    THEN [collection |-> Some("pages"), language |-> "en"]
    ELSE [collection |-> None, language |-> "en"]

extract_collection_and_language(rel) ==
    IF starts_with(to_string_lossy(rel), "_pages")
    THEN [collection |-> Some("pages"), language |-> "en"]
    ELSE [collection |-> None, language |-> "en"]

Ok(doc) == [err |-> "none", doc |-> {doc}]
Err(kind) == [err |-> kind, doc |-> {}]

\* from_path on a file f, with data the front matter the parser handed back.
from_path_prefix_first(p, root, f, data) ==
    LET rel == strip_prefix(p, root)
        cl == extract_collection_and_language(rel.v)
    IN  IF ~rel.ok THEN Err("path")
        ELSE IF ~f.readable THEN Err("io")
        ELSE Ok([path |-> p,
                 relative_path |-> rel.v,
                 front_matter |-> FrontMatterOf(data),
                 content |-> f.body,
                 html_content |-> push_html(f.body),
                 collection |-> cl.collection,
                 language |-> cl.language])

from_path(p, root, f, data) ==
    LET rel == strip_prefix(p, root)
        cl == extract_collection_and_language(rel.v)
    IN  IF ~f.readable THEN Err("io")
        ELSE IF ~rel.ok THEN Err("path")
        ELSE Ok([path |-> p,
                 relative_path |-> rel.v,
                 front_matter |-> FrontMatterOf(data),
                 content |-> f.body,
                 html_content |-> push_html(f.body),
                 collection |-> cl.collection,
                 language |-> cl.language])

get_output_path(doc) == "/" \o Stem(doc.path) \o "/"

\* A PathBuf of one or two components, each a text.
get_file_path(doc) ==
    IF Stem(doc.path) = "index" THEN <<"index.html">>
    ELSE <<Stem(doc.path), "index.html">>

\* HashMap<String, String> as a set of [k, v] pairs.
get_language_urls(doc) ==
    IF Stem(doc.path) = "index" THEN {[k |-> "en", v |-> "/"]}
    ELSE {[k |-> "en", v |-> "/" \o Stem(doc.path) \o "/"]}

\* A PathBuf of texts as one text.
Display(pb) == IF Len(pb) = 1 THEN pb[1] ELSE pb[1] \o "/" \o pb[2]

(***************************************************************************)
(* The resolver's caller: one from_path call, then derivations on the      *)
(* document it returned.                                                   *)
(***************************************************************************)
NoDerived == [op |-> "none", url |-> "", file_path |-> <<>>, urls |-> {}]

TheDoc == CHOOSE d \in result.doc : TRUE

FromPath ==
    /\ pc = "start"
    /\ \E data \in matter_data(file.front) :
          result' = from_path(path, source_root, file, data)
    /\ pc' = IF result'.err = "none" THEN "resolved" ELSE "failed"
    /\ UNCHANGED <<path, source_root, file, derived>>
    /\ UNCHANGED engineVars

GetOutputPath ==
    /\ pc = "resolved"
    /\ derived' = [NoDerived EXCEPT !.op = "get_output_path",
                                    !.url = get_output_path(TheDoc)]
    /\ UNCHANGED <<path, source_root, file, pc, result>>
    /\ UNCHANGED engineVars

GetFilePath ==
    /\ pc = "resolved"
    /\ derived' = [NoDerived EXCEPT !.op = "get_file_path",
                                    !.file_path = get_file_path(TheDoc)]
    /\ UNCHANGED <<path, source_root, file, pc, result>>
    /\ UNCHANGED engineVars

GetLanguageUrls ==
    /\ pc = "resolved"
    /\ derived' = [NoDerived EXCEPT !.op = "get_language_urls",
                                    !.urls = get_language_urls(TheDoc)]
    /\ UNCHANGED <<path, source_root, file, pc, result>>
    /\ UNCHANGED engineVars

(***************************************************************************)
(* serde_json::Value, in the record shape of Node, and the data files.     *)
(***************************************************************************)
JString(s) == Node("String", s, 0, FALSE, <<>>, {})
JArray(seq) == Node("Array", "", 0, FALSE, seq, {})
JObject(pairs) == Node("Object", "", 0, FALSE, <<>>, pairs)
JNull == Node("Null", "", 0, FALSE, <<>>, {})

TextYamlEn == "en:\n  hello: Hello"
TextJsonPt == "{\"pt\": {\"hello\": \"Ola\"}}"
TextYamlList == "- en"
TextBad == "{: ["
Texts == {TextYamlEn, TextJsonPt, TextYamlList, TextBad}

ValueEn == JObject({[k |-> "en", v |-> JObject({[k |-> "hello", v |-> JString("Hello")]})]})
ValueList == JArray(<<JString("en")>>)
ValuePt == JObject({[k |-> "pt", v |-> JObject({[k |-> "hello", v |-> JString("Ola")]})]})

\* serde_yaml::from_str::<Value> on the texts used: a JSON document is YAML too.
yaml_from_str(text) ==
    CASE text = TextYamlEn -> [ok |-> TRUE, v |-> ValueEn]
      [] text = TextJsonPt -> [ok |-> TRUE, v |-> ValuePt]
      [] text = TextYamlList -> [ok |-> TRUE, v |-> ValueList]
      [] OTHER -> [ok |-> FALSE, v |-> JNull]

\* serde_json::from_str::<Value> on the texts used: block-style YAML is not JSON.
json_from_str(text) ==
    CASE text = TextJsonPt -> [ok |-> TRUE, v |-> ValuePt]
      [] OTHER -> [ok |-> FALSE, v |-> JNull]

\* Path::extension as Option<name>: None when the file name has no "." or only
\* a leading one, else the part after the last ".".
extension(name) ==
    IF LastDot(name) <= 1 THEN [some |-> FALSE, v |-> <<>>]
    ELSE [some |-> TRUE, v |-> SubSeq(name, LastDot(name) + 1, Len(name))]

\* `extension == "yml"`: an OsStr equals a str only when it is that text.
ExtIs(name, text) == extension(name).some /\ to_str(extension(name).v) = Some(text)

DataNames ==
    { <<"translations", ".", "yml">>,
      <<"translations", ".", "json">>,
      <<"nav", ".", "yaml">>,
      <<"notes", ".", "txt">>,
      <<"README">>,
      <<"<FF>", ".", "yml">> }

\* What a directory entry holds: a readable text, or nothing read_to_string
\* can read (a subdirectory, a file without read permission).
Contents == {[readable |-> FALSE, text |-> ""]} \cup {[readable |-> TRUE, text |-> t] : t \in Texts}

\* Directory listings: file names are unique within a directory.
Listings ==
    UNION { { { [name |-> n, readable |-> f[n].readable, text |-> f[n].text] : n \in S } :
              f \in [S -> Contents] } :
            S \in {T \in SUBSET DataNames : Cardinality(T) <= MaxDataFiles} }

DataDirs ==
    {[exists |-> FALSE, entries |-> {}]} \cup {[exists |-> TRUE, entries |-> l] : l \in Listings}

\* HashMap::insert on a set of [k, v] pairs.
Insert(map, key, value) == {f \in map : f.k # key} \cup {[k |-> key, v |-> value]}

\* One pass of the loop body of load_data_files over a directory entry.
load_entry_by_name(data, entry) ==
    LET name == entry.name
        full == to_str(name)
    IN  IF ExtIs(name, "yml") \/ ExtIs(name, "yaml") THEN
            LET parsed == yaml_from_str(entry.text)
            IN  IF ~entry.readable \/ ~parsed.ok THEN [ok |-> FALSE, v |-> data]
                ELSE IF full.some THEN [ok |-> TRUE, v |-> Insert(data, full.v, parsed.v)]
                ELSE [ok |-> TRUE, v |-> data]
        ELSE IF ExtIs(name, "json") THEN
            LET parsed == json_from_str(entry.text)
            IN  IF ~entry.readable \/ ~parsed.ok THEN [ok |-> FALSE, v |-> data]
                ELSE IF full.some THEN [ok |-> TRUE, v |-> Insert(data, full.v, parsed.v)]
                ELSE [ok |-> TRUE, v |-> data]
        ELSE [ok |-> TRUE, v |-> data]

load_entry(data, entry) ==
    LET name == entry.name
        fs == file_stem(<<name>>)
        filename == IF fs.some THEN to_str(fs.v) ELSE None
    IN  IF ExtIs(name, "yml") \/ ExtIs(name, "yaml") THEN
            LET parsed == yaml_from_str(entry.text)
            IN  IF ~entry.readable \/ ~parsed.ok THEN [ok |-> FALSE, v |-> data]
                ELSE IF filename.some
                     THEN [ok |-> TRUE, v |-> Insert(data, filename.v, parsed.v)]
                     ELSE [ok |-> TRUE, v |-> data]
        ELSE IF ExtIs(name, "json") THEN
            LET parsed == json_from_str(entry.text)
            IN  IF ~entry.readable \/ ~parsed.ok THEN [ok |-> FALSE, v |-> data]
                ELSE IF filename.some
                     THEN [ok |-> TRUE, v |-> Insert(data, filename.v, parsed.v)]
                     ELSE [ok |-> TRUE, v |-> data]
        ELSE [ok |-> TRUE, v |-> data]

RECURSIVE load_loop(_, _)
\* The for loop of load_data_files over the entries in the order read_dir
\* yields them; `?` returns at the first entry that fails.
load_loop(order, data) ==
    IF order = <<>> THEN [ok |-> TRUE, v |-> data]
    ELSE LET step == load_entry(data, Head(order))
         IN  IF ~step.ok THEN [ok |-> FALSE, v |-> {}]
             ELSE load_loop(Tail(order), step.v)

\* The orders in which read_dir may yield a set of entries.
Orders(entries) ==
    {o \in [1..Cardinality(entries) -> entries] :
        \A i, j \in 1..Cardinality(entries) : i # j => o[i] # o[j]}

load_data_files(dir, order) ==
    IF dir.exists THEN load_loop(order, {}) ELSE [ok |-> TRUE, v |-> {}]

(***************************************************************************)
(* Tera.  A template is its name and the context keys it cannot render     *)
(* without; its output is a function of the template and the context, and  *)
(* is kept as that pair.                                                   *)
(***************************************************************************)
SiteTemplates ==
    { [name |-> "default.html", needs |-> {"t"}],
      [name |-> "post.html", needs |-> {"content"}] }

\* Tera::new(glob): Ok with the templates found, Err when one does not compile.
TemplateFiles == {[ok |-> TRUE, templates |-> SiteTemplates],
                  [ok |-> FALSE, templates |-> SiteTemplates]}

\* Tera::new(..).unwrap_or_else(|e| { println!(..); Tera::default() })
load_templates(files) == IF files.ok THEN files.templates ELSE {}

Filters == {"escape", "relative_url", "absolute_url"}

ContextKeys(context) ==
    {"page", "content", "site", "data", "lang", "language_urls"}
        \cup (IF context.t # {} THEN {"t"} ELSE {})

\* Tera::render(name, context).map_err(..)
tera_render(tera, name, context) ==
    IF \E tpl \in tera : tpl.name = name /\ tpl.needs \subseteq ContextKeys(context)
    THEN [err |-> "none", out |-> {[template |-> name, context |-> context]}]
    ELSE [err |-> "Template rendering error", out |-> {}]

SiteConfig == [title |-> "Site"]

\* serde_json::Value::get(&String): Some only on an object that has the key.
value_get(value, key) ==
    IF value.tag = "Object" /\ key \in Keys(value.fields)
    THEN {At(value.fields, key)} ELSE {}

\* The `t` entry of the context: an Option as a set of at most one value.
translations_any_language(data, lang) ==
    IF "translations" \in Keys(data) /\ At(data, "translations").tag = "Object"
          /\ At(data, "translations").fields # {}
    THEN {(CHOOSE f \in At(data, "translations").fields : TRUE).v}
    ELSE {}

translations_for(data, lang) ==
    IF "translations" \in Keys(data)
    THEN value_get(At(data, "translations"), lang)
    ELSE {}

\* The Context render_content builds (templates.rs 94-111).
build_context(data, doc, site_config) ==
    [page |-> doc.front_matter,
     content |-> doc.html_content,
     site |-> site_config,
     data |-> data,
     lang |-> doc.language,
     t |-> translations_for(data, doc.language),
     language_urls |-> get_language_urls(doc)]

layout_or_index(doc) ==
    (IF doc.front_matter.layout.some THEN doc.front_matter.layout.v ELSE "index")
        \o ".html"

\* The template render_content selects (templates.rs 113-118).
template_name_of(doc) ==
    (IF doc.front_matter.layout.some THEN doc.front_matter.layout.v ELSE "default")
        \o ".html"

(***************************************************************************)
(* The documents and pages the build renders.                              *)
(***************************************************************************)
ReadableFile(pod) == [readable |-> TRUE, front |-> [kind |-> "parsed", pod |-> pod], body |-> Body]

Resolve(p, pod) == from_path(p, <<Site>>, ReadableFile(pod), {pod}).doc

RenderDocs ==
    Resolve(<<Site, PagesDir, <<"about", ".", "md">>>>,
            PHash({[k |-> "layout", v |-> PString("post")]}))
    \cup Resolve(<<Site, <<"index", ".", "md">>>>,
            PHash({[k |-> "title", v |-> PString("Home")]}))
    \cup Resolve(<<Site, <<"about", ".", "en", ".", "md">>>>,
            PHash({[k |-> "layout", v |-> PString("missing")]}))

\* A context a caller of render_page assembles for a listing page.
PageContext ==
    [page |-> EmptyFrontMatter, content |-> "", site |-> SiteConfig, data |-> {},
     lang |-> "en", t |-> {}, language_urls |-> {}]

PageTemplates == {"post.html", "list.html"}

NoCall == [op |-> "none", doc |-> {}, template_name |-> "", context |-> PageContext]
NoReturn == [call |-> NoCall, result |-> [err |-> "pending", out |-> {}]]

(***************************************************************************)
(* TemplateEngine: construction and the render calls.                      *)
(***************************************************************************)
TheEngine == CHOOSE e \in engine : TRUE

\* TemplateEngine::new: Ok(engine) or the error of load_data_files.
TemplateEngineNew ==
    /\ engine_pc = "new"
    /\ \E order \in Orders(data_dir.entries) :
          LET loaded == load_data_files(data_dir, order)
          IN  IF loaded.ok
              THEN /\ engine' = {[tera |-> load_templates(template_files),
                                  data |-> loaded.v,
                                  filters |-> Filters]}
                   /\ engine_pc' = "ready"
              ELSE /\ engine' = {}
                   /\ engine_pc' = "failed"
    /\ UNCHANGED <<data_dir, template_files, calls, returned>>
    /\ UNCHANGED contentVars

\* render_content and render_page borrow the engine as &self.
engine_caching_render(eng, call) ==
    {[e EXCEPT !.data = Insert(@, "last_template", JString(call.template_name))] : e \in eng}

engine_after_render(eng, call) == eng

\* render_content up to the call of tera.render: the context is built and the
\* template is selected.
RenderContentBegin ==
    /\ engine_pc = "ready"
    /\ BagCardinality(calls) < NumThreads
    /\ \E doc \in RenderDocs :
          calls' = calls (+) SetToBag({[op |-> "render_content",
                                        doc |-> {doc},
                                        template_name |-> template_name_of(doc),
                                        context |-> build_context(TheEngine.data, doc, SiteConfig)]})
    /\ UNCHANGED <<data_dir, template_files, engine_pc, engine, returned>>
    /\ UNCHANGED contentVars

\* render_content: tera.render returns and its result is handed to the caller.
RenderContentReturn ==
    /\ engine_pc = "ready"
    /\ \E call \in BagToSet(calls) :
          /\ call.op = "render_content"
          /\ returned' = [call |-> call,
                          result |-> tera_render(TheEngine.tera, call.template_name, call.context)]
          /\ calls' = calls (-) SetToBag({call})
          /\ engine' = engine_after_render(engine, call)
    /\ UNCHANGED <<data_dir, template_files, engine_pc>>
    /\ UNCHANGED contentVars

\* render_page entered with a caller-assembled context.
RenderPageBegin ==
    /\ engine_pc = "ready"
    /\ BagCardinality(calls) < NumThreads
    /\ \E name \in PageTemplates :
          calls' = calls (+) SetToBag({[op |-> "render_page",
                                        doc |-> {},
                                        template_name |-> name,
                                        context |-> PageContext]})
    /\ UNCHANGED <<data_dir, template_files, engine_pc, engine, returned>>
    /\ UNCHANGED contentVars

RenderPageReturn ==
    /\ engine_pc = "ready"
    /\ \E call \in BagToSet(calls) :
          /\ call.op = "render_page"
          /\ returned' = [call |-> call,
                          result |-> tera_render(TheEngine.tera, call.template_name, call.context)]
          /\ calls' = calls (-) SetToBag({call})
          /\ engine' = engine_after_render(engine, call)
    /\ UNCHANGED <<data_dir, template_files, engine_pc>>
    /\ UNCHANGED contentVars

(***************************************************************************)
(* Specifications.                                                         *)
(***************************************************************************)
EngineIdle ==
    /\ engine_pc = "new"
    /\ engine = {}
    /\ calls = EmptyBag
    /\ returned = NoReturn

ContentIdle ==
    /\ pc = "start"
    /\ result = [err |-> "pending", doc |-> {}]
    /\ derived = NoDerived

\* Content resolution: any path, root and file; a path ending in ".." names a
\* directory, which read_to_string cannot read.
Init ==
    /\ path \in Paths
    /\ source_root \in Roots
    /\ file \in Files
    /\ path[Len(path)] = DotDot => ~file.readable
    /\ ContentIdle
    /\ data_dir = [exists |-> FALSE, entries |-> {}]
    /\ template_files = [ok |-> TRUE, templates |-> {}]
    /\ EngineIdle

Next == FromPath \/ GetOutputPath \/ GetFilePath \/ GetLanguageUrls

Spec == Init /\ [][Next]_vars

\* Template rendering: any _data directory and templates directory.
InitEngine ==
    /\ data_dir \in DataDirs
    /\ template_files \in TemplateFiles
    /\ EngineIdle
    /\ path = <<Site, <<"index", ".", "md">>>>
    /\ source_root = <<Site>>
    /\ file = Unreadable
    /\ ContentIdle

NextEngine ==
    \/ TemplateEngineNew
    \/ RenderContentBegin
    \/ RenderContentReturn
    \/ RenderPageBegin
    \/ RenderPageReturn

SpecEngine == InitEngine /\ [][NextEngine]_vars

(***************************************************************************)
(* Properties of content resolution, checked under Spec.                   *)
(***************************************************************************)
\* root is a prefix of p, component by component.
Under(p, root) == Len(root) <= Len(p) /\ \A i \in 1..Len(root) : p[i] = root[i]

\* The path has a file stem that is valid Unicode.
HasTextStem(p) == file_stem(p).some /\ to_str(file_stem(p).v).some

\* C1: for every resolved document the URL of get_output_path is "/" when the
\* stem is "index" and "/<stem>/" otherwise, and the file of get_file_path is
\* "index.html" when the stem is "index" and "<stem>/index.html" otherwise
\* (stated for the paths whose stem is a text).
C1_OutputPathByStem ==
    HasTextStem(path) =>
    /\ derived.op = "get_output_path" =>
          derived.url = IF Stem(path) = "index" THEN "/" ELSE "/" \o Stem(path) \o "/"
    /\ derived.op = "get_file_path" =>
          Display(derived.file_path) =
              IF Stem(path) = "index" THEN "index.html" ELSE Stem(path) \o "/index.html"

\* The first-class field of a front matter under a recognized key.
Field(fm, key) ==
    CASE key = "title" -> fm.title
      [] key = "layout" -> fm.layout
      [] OTHER -> fm.lang

\* C2: from a front-matter mapping, each of title, layout, lang is stored with
\* exactly the source string when its value is a string and is None otherwise,
\* never appears as a key of extra, and every other top-level key is in extra.
C2_RecognizedKeysPulledOut ==
    (pc = "resolved" /\ file.front.kind = "parsed" /\ file.front.pod.tag = "Hash") =>
        LET map == file.front.pod.fields
            fm == TheDoc.front_matter
        IN  /\ \A key \in Recognized :
                 /\ (\E f \in map : f.k = key /\ f.v.tag = "String") =>
                        \E f \in map : f.k = key /\ Field(fm, key) = Some(f.v.str)
                 /\ ~(\E f \in map : f.k = key /\ f.v.tag = "String") =>
                        Field(fm, key) = None
                 /\ key \notin Keys(fm.extra)
            /\ \A f \in map : f.k \notin Recognized => f.k \in Keys(fm.extra)

C2_Witness ==
    /\ pc = "resolved"
    /\ file.front.kind = "parsed"
    /\ file.front.pod.tag = "Hash"
    /\ \E f \in file.front.pod.fields : f.k = "layout" /\ f.v.tag = "Integer"
    /\ \E f \in file.front.pod.fields : f.k = "title" /\ f.v.tag = "String"
    /\ TheDoc.front_matter.title = Some("post")
    /\ TheDoc.front_matter.layout = None
    /\ TheDoc.front_matter.extra = {}

\* C3: resolving a readable file whose front-matter block is malformed returns
\* a parse error, never a document with empty front matter.
C3_MalformedFrontMatterIsError ==
    (pc # "start" /\ file.readable /\ file.front.kind = "malformed") =>
        /\ result.err = "parse"
        /\ result.doc = {}

\* C4: from_path fails and returns no document when path is not under
\* source_root, with a path error when the file is readable; on success
\* relative_path is path with the source_root prefix stripped; an unreadable
\* file fails with an I/O error, also when it is outside the root.
C4_PathAndIoErrors ==
    pc # "start" =>
        /\ ~Under(path, source_root) =>
              /\ result.doc = {}
              /\ result.err # "none"
              /\ file.readable => result.err = "path"
        /\ ~file.readable => result.err = "io" /\ result.doc = {}
        /\ pc = "resolved" =>
              /\ Under(path, source_root)
              /\ source_root \o TheDoc.relative_path = path

C4_Witness ==
    /\ pc = "failed"
    /\ ~Under(path, source_root)
    /\ file.readable
    /\ result = Err("path")

\* C8: collection is "pages" when the text of the relative path begins with
\* "_pages" and unset otherwise; language is "en" whatever the path and the
\* front-matter lang.
C8_CollectionAndLanguage ==
    pc = "resolved" =>
        LET rel == SubSeq(path, Len(source_root) + 1, Len(path))
            begins == Len(rel) >= 1 /\ Len(rel[1]) >= 1 /\ rel[1][1] = "_pages"
        IN  /\ TheDoc.language = "en"
            /\ begins => TheDoc.collection = Some("pages")
            /\ ~begins => TheDoc.collection = None

C8_Witness ==
    /\ pc = "resolved"
    /\ TheDoc.relative_path = <<PagesDir, <<"about", ".", "md">>>>
    /\ TheDoc.collection = Some("pages")
    /\ TheDoc.front_matter.lang = Some("post")
    /\ TheDoc.language = "en"

\* C10: get_language_urls returns exactly one entry, keyed "en", whose value is
\* the URL get_output_path computes for the same document (stated for the paths
\* whose stem is a text).
C10_LanguageUrlIsOutputPath ==
    (HasTextStem(path) /\ derived.op = "get_language_urls") =>
        derived.urls = {[k |-> "en", v |-> get_output_path(TheDoc)]}

(***************************************************************************)
(* Properties of the template engine, checked under SpecEngine.            *)
(***************************************************************************)
\* A file name with one of the recognized extensions, and the text before it.
RecognizedName(name) ==
    /\ Len(name) >= 3
    /\ name[Len(name) - 1] = "."
    /\ name[Len(name)] \in {"yml", "yaml", "json"}
StemPieces(name) == SubSeq(name, 1, Len(name) - 2)
IsUnicode(ps) == \A i \in 1..Len(ps) : ps[i] \notin NonUtf8

\* What a recognized file parses to, by its format.
Parsed(e) ==
    IF e.name[Len(e.name)] = "json" THEN json_from_str(e.text) ELSE yaml_from_str(e.text)
WellFormed(e) == e.readable /\ Parsed(e).ok

RecognizedEntries == {e \in data_dir.entries : RecognizedName(e.name)}

\* A recognized file that cannot be loaded makes construction fail.
MalformedAborts ==
    (engine_pc # "new" /\ \E e \in RecognizedEntries : ~WellFormed(e)) =>
        engine_pc = "failed" /\ engine = {}

\* C7 as claimed: after new succeeds every recognized file of _data is in the
\* data table under its stem with its own parsed value, no other file
\* contributes an entry, and a malformed recognized file fails construction
\* (stated for the files whose stem is valid Unicode).
C7_EveryFileOwnEntry ==
    /\ engine_pc = "ready" =>
          /\ \A e \in RecognizedEntries :
                /\ WellFormed(e)
                /\ IsUnicode(StemPieces(e.name)) =>
                      [k |-> Join(StemPieces(e.name)), v |-> Parsed(e).v] \in TheEngine.data
          /\ \A f \in TheEngine.data :
                \E e \in RecognizedEntries : f.k = Join(StemPieces(e.name))
    /\ MalformedAborts

\* C7 amended: after new succeeds every recognized file has been parsed, and
\* when its stem is valid Unicode the table has exactly one entry under that
\* stem, holding the parsed value of a recognized file with that stem (its own
\* when no other recognized file shares the stem); nothing else contributes an
\* entry, and a malformed recognized file fails construction.
C7_EntryPerStem ==
    /\ engine_pc = "ready" =>
          /\ \A e \in RecognizedEntries :
                /\ WellFormed(e)
                /\ IsUnicode(StemPieces(e.name)) =>
                      \E f \in TheEngine.data :
                         /\ f.k = Join(StemPieces(e.name))
                         /\ \E e2 \in RecognizedEntries :
                               /\ StemPieces(e2.name) = StemPieces(e.name)
                               /\ f.v = Parsed(e2).v
          /\ \A f \in TheEngine.data :
                \E e \in RecognizedEntries :
                   IsUnicode(StemPieces(e.name)) /\ f.k = Join(StemPieces(e.name))
          /\ \A f, g \in TheEngine.data : f.k = g.k => f = g
    /\ MalformedAborts

C7_Witness ==
    /\ engine_pc = "ready"
    /\ \E e1, e2 \in RecognizedEntries :
          /\ e1 # e2
          /\ StemPieces(e1.name) = StemPieces(e2.name)
          /\ Parsed(e1).v # Parsed(e2).v
    /\ Keys(TheEngine.data) = {"translations"}

\* The render_content calls in flight and the one that returned last.
ContentCalls ==
    {c \in BagToSet(calls) \cup {returned.call} : c.op = "render_content"}
DocOf(call) == CHOOSE d \in call.doc : TRUE

\* C5: render_content renders the template "<layout>.html", "default.html"
\* when the front matter has no layout, and returns an error and no string
\* when that template is not in the loaded set.
C5_LayoutSelectsTemplate ==
    returned.call.op = "render_content" =>
        LET fm == DocOf(returned.call).front_matter
            expected == IF fm.layout = None THEN "default.html" ELSE fm.layout.v \o ".html"
        IN  /\ returned.call.template_name = expected
            /\ \A c \in ContentCalls :
                  c.template_name =
                      IF DocOf(c).front_matter.layout = None THEN "default.html"
                      ELSE DocOf(c).front_matter.layout.v \o ".html"
            /\ \A o \in returned.result.out : o.template = expected
            /\ returned.result.err = "none" => returned.result.out # {}
            /\ (\A tpl \in TheEngine.tera : tpl.name # expected) =>
                  returned.result.err # "none" /\ returned.result.out = {}

C5_Witness ==
    /\ returned.call.op = "render_content"
    /\ DocOf(returned.call).front_matter.layout = None
    /\ returned.result.err = "none"
    /\ \E o \in returned.result.out : o.template = "default.html"

\* C6: in the context render_content builds, t is present exactly when the
\* data table has a translations entry containing the document's language, and
\* is then that sub-table; otherwise t is absent.
C6_TranslationsInContext ==
    \A c \in ContentCalls :
        LET lang == DocOf(c).language
            tables == {h.v : h \in {f \in TheEngine.data :
                                        f.k = "translations" /\ f.v.tag = "Object"}}
            subs == {g.v : g \in {x \in UNION {tb.fields : tb \in tables} : x.k = lang}}
        IN  /\ c.context.lang = lang
            /\ c.context.t = subs

C6_Witness ==
    \E c \in BagToSet(calls) :
        /\ c.op = "render_content"
        /\ DocOf(c).language = "en"
        /\ c.context.t = {JObject({[k |-> "hello", v |-> JString("Hello")]})}

\* What a render call returns, from its arguments and the engine alone.
ResultOf(call) ==
    IF call.op = "render_content"
    THEN tera_render(TheEngine.tera, template_name_of(DocOf(call)),
                     build_context(TheEngine.data, DocOf(call), SiteConfig))
    ELSE tera_render(TheEngine.tera, call.template_name, call.context)

\* C9: once constructed the engine never changes, whatever render calls begin,
\* overlap, succeed or fail, and each call's result is the one its arguments
\* and the engine determine.
C9_EngineReadOnly ==
    /\ [][engine_pc = "ready" => engine' = engine /\ engine_pc' = "ready"]_vars
    /\ [](returned.call.op # "none" => returned.result = ResultOf(returned.call))

C9_Witness ==
    /\ returned.call.op = "render_content"
    /\ returned.result.err # "none"
    /\ BagCardinality(calls) = NumThreads
    /\ \E c \in BagToSet(calls) : c.op = "render_page"
    /\ \E c \in BagToSet(calls) : c.op = "render_content"
====
